---------------------------- MODULE Spec2Model ----------------------------
(***************************************************************************)
(* A model of the tuic client core:                                        *)
(*   - tuic/src/prototype/packet.rs : Packet<Tx>, the Fragment iterator    *)
(*   - tuic/src/prototype/connect.rs: Connect<Tx> and its task register    *)
(*   - src/client/stream.rs         : SendStream, RecvStream, Stream       *)
(* The Address / PacketHeader codec (crate::protocol), the TaskRegister    *)
(* and the receive-side reassembler are not part of the sources at hand;   *)
(* they are modelled from the written specification (sections 3, 4.3, 4.5  *)
(* and 6) and are marked as such where they are defined.                   *)
(***************************************************************************)
EXTENDS Integers, Naturals, Sequences, FiniteSets, TLC

VARIABLES
    pc,          \* "packet": a Packet<Tx> exists; "iter": a Fragment exists;
                 \* "panic": the thread unwound inside into_fragments/next
    args,        \* the arguments Packet::new was called with (history)
    packet,      \* the Packet<side::Tx> value (packet.rs:4-17)
    payload,     \* the caller's buffer, borrowed by the Fragment for 'a
    frag,        \* the Fragment iterator's fields (packet.rs:40-49)
    emitted,     \* the items next() has yielded so far, in order
    exhausted,   \* next() has returned None at least once
    nones,       \* how often next() has returned None (counted to MaxNones)
    rx_table,    \* reassembler: (assoc_id, pkt_id) -> partial record
    rx_out,      \* reassembler: the (address, payload) pairs it has emitted
    rx_seen,     \* indices of `emitted` that were delivered at least once
    rx_redelivered, \* some fragment was delivered again before completion
    rx_late,     \* some fragment was delivered after the record completed
    task_count,  \* live TaskRegister handles of the connection
    free_regs,   \* TaskRegister handles the caller holds, not yet given away
    connects,    \* the Connect<side::Tx> values alive, by id
    arc_strong,  \* strong count of the connection's StreamReg (Arc<()>)
    streams,     \* the Stream values alive, by id
    op,          \* the last operation performed on a stream or object
    io,          \* the last I/O call on a stream: what the transport half
                 \* produced and what the caller got back
    cfg_args,    \* the command line given to ConfigBuilder::parse
    cfg_result   \* what ConfigBuilder::parse returned

fragVars == <<pc, args, packet, payload, frag, emitted, exhausted, nones>>
rxVars   == <<rx_table, rx_out, rx_seen, rx_redelivered, rx_late>>
lifeVars == <<task_count, free_regs, connects, arc_strong, streams, op>>
cfgVars  == <<cfg_args, cfg_result>>
auxVars  == <<io, cfgVars>>
vars     == <<fragVars, rxVars, lifeVars, auxVars>>

(***************************************************************************)
(* Bounds of the model.                                                    *)
(***************************************************************************)
MinPktSize    == 8      \* smallest max_pkt_size tried (below every header)
MaxPktSize    == 32     \* largest max_pkt_size tried
MaxPayloadLen == 50     \* payload lengths 0..MaxPayloadLen are all tried
MaxNones      == 2      \* calls of next() on an exhausted iterator counted

\* Large payloads, tried with the tightest budgets only: the lengths at
\* which the fragment count reaches and passes the one-byte ceiling.
LargePayloadLens == {254, 255, 256, 257, 1778, 1779}
LargePktSizes    == {10, 16}

(***************************************************************************)
(* Machine integers.                                                       *)
(***************************************************************************)
\* `x as u8`, `x as u16`: truncating casts.
AsU8(n)  == n % 256
AsU16(n) == n % 65536

\* usize arithmetic.  A release build wraps, a debug build panics on
\* overflow.  The model checker's integers are 32 bits wide, so the wrap
\* is taken modulo 2^30; every length in the model is far below that, so
\* a wrapped difference is "larger than any payload", as it is at 2^64.
UsizeModulus == 2 ^ 30
WrappingSub(a, b) == (a - b) % UsizeModulus
WrappingAdd(a, b) == (a + b) % UsizeModulus

Min(a, b) == IF a <= b THEN a ELSE b

(***************************************************************************)
(* crate::protocol (specification sections 3 and 6).                       *)
(***************************************************************************)
AddrNone   == [type |-> "None",   host |-> <<>>, port |-> 0]
AddrV4     == [type |-> "Socket", host |-> <<10, 0, 0, 1>>, port |-> 53]
AddrV6     == [type |-> "Socket",
               host |-> <<32, 1, 13, 184, 0, 0, 0, 0, 0, 0, 0, 0, 0, 0, 0, 1>>,
               port |-> 443]
AddrDomain == [type |-> "Domain", host |-> <<97, 46, 105, 111>>, port |-> 80]
Addresses  == {AddrNone, AddrV4, AddrV6, AddrDomain}

\* Address::len(): one type tag byte, then nothing (None), a length byte,
\* the name and a u16 port (domain), or the IP bytes and a u16 port.
AddrLen(a) ==
    1 + CASE a.type = "None"   -> 0
          [] a.type = "Domain" -> 1 + Len(a.host) + 2
          [] a.type = "Socket" -> Len(a.host) + 2

\* Address::take(): the address, leaving Address::None in its place.
AddrTake(a) == [taken |-> a, left |-> AddrNone]

\* PacketHeader::len_without_addr(): assoc_id, pkt_id, frag_total,
\* frag_id, size.
LenWithoutAddr == 2 + 2 + 1 + 1 + 2

\* PacketHeader::new(assoc_id, pkt_id, frag_total, frag_id, size, addr)
PacketHeaderNew(assoc_id, pkt_id, frag_total, frag_id, size, addr) ==
    [assoc_id |-> assoc_id, pkt_id |-> pkt_id, frag_total |-> frag_total,
     frag_id |-> frag_id, size |-> size, addr |-> addr]

(***************************************************************************)
(* Inputs.                                                                 *)
(***************************************************************************)
\* The byte at 1-based position i of the payload with the given seed.
\* Neighbouring bytes differ, and so do bytes a fragment apart.
PayloadByte(seed, i) == (seed + 7 * i) % 256
MkPayload(len, seed) == [i \in 1..len |-> PayloadByte(seed, i)]

Seeds == {0, 1}

\* (assoc_id, pkt_id) of the packet: both u16.
PacketIds == {<<1, 0>>, <<65535, 65535>>}

SmallInputs ==
    [max_pkt_size : MinPktSize..MaxPktSize, addr : Addresses,
     len : 0..MaxPayloadLen]
LargeInputs ==
    [max_pkt_size : LargePktSizes, addr : Addresses, len : LargePayloadLens]
Inputs == SmallInputs \cup LargeInputs

\* Budgets that leave room for a slice of about 2^16 bytes, and payloads
\* around that length.
WidePktSizes    == {65544, 65545, 65560}
WidePayloadLens == {65535, 65536, 65537}
WideInputs ==
    [max_pkt_size : WidePktSizes, addr : {AddrNone, AddrV4},
     len : WidePayloadLens]

(***************************************************************************)
(* Packet<Tx> and Fragment (packet.rs).                                    *)
(***************************************************************************)
\* A constructor that stores receive-side contents under the Tx marker.
PacketNewRx(assoc_id, pkt_id, addr, max_pkt_size) ==
    [inner  |-> [side |-> "Rx", assoc_id |-> assoc_id, pkt_id |-> pkt_id,
                 addr |-> addr, max_pkt_size |-> max_pkt_size],
     marker |-> "Tx"]

\* Packet::<side::Tx>::new
PacketNew(assoc_id, pkt_id, addr, max_pkt_size) ==
    [inner  |-> [side |-> "Tx", assoc_id |-> assoc_id, pkt_id |-> pkt_id,
                 addr |-> addr, max_pkt_size |-> max_pkt_size],
     marker |-> "Tx"]

\* No Packet value: `self` was moved into into_fragments, or dropped.
PacketMoved == [inner |-> [side |-> "Moved"], marker |-> "Tx"]

\* No Fragment has been built.
NoFragment == [built |-> FALSE]

\* let first_frag_size = max_pkt_size - len_without_addr() - addr.len();
FirstFragSize(max_pkt_size, addr) ==
    WrappingSub(WrappingSub(max_pkt_size, LenWithoutAddr), AddrLen(addr))

\* let frag_size_addr_none = max_pkt_size - len_without_addr() - Address::None.len();
FragSizeAddrNone(max_pkt_size) ==
    WrappingSub(WrappingSub(max_pkt_size, LenWithoutAddr), AddrLen(AddrNone))

\* One of the two subtractions of a size computation overflows.
SizeOverflows(max_pkt_size, addr) ==
    max_pkt_size < LenWithoutAddr + AddrLen(addr)

\* The count without the trailing `+ 1`.
FragTotalFloor(first_frag_size, frag_size_addr_none, payload_len) ==
    IF first_frag_size < payload_len
    THEN AsU8(1 + (payload_len - first_frag_size) \div frag_size_addr_none)
    ELSE 1

\* let frag_total = if first_frag_size < payload.len() { (1 + .. + 1) as u8 } else { 1u8 };
FragTotal(first_frag_size, frag_size_addr_none, payload_len) ==
    IF first_frag_size < payload_len
    THEN AsU8(1 + (payload_len - first_frag_size) \div frag_size_addr_none + 1)
    ELSE 1

\* The division in frag_total's first branch divides by zero.
FragTotalDividesByZero(first_frag_size, frag_size_addr_none, payload_len) ==
    first_frag_size < payload_len /\ frag_size_addr_none = 0

\* Fragment::new's struct literal.
FragmentNew(assoc_id, pkt_id, addr, max_pkt_size, payload_len) ==
    [built |-> TRUE,
     assoc_id |-> assoc_id, pkt_id |-> pkt_id, addr |-> addr,
     max_pkt_size |-> max_pkt_size,
     frag_total |-> FragTotal(FirstFragSize(max_pkt_size, addr),
                              FragSizeAddrNone(max_pkt_size), payload_len),
     next_frag_id |-> 0, next_frag_start |-> 0]

\* Packet::<side::Tx>::into_fragments(self, payload), Fragment::new inlined.
\* The subtractions overflow when the budget is below the header: a debug
\* build panics there, a release build goes on with the wrapped sizes.
\* `let Side::Tx(tx) = self.inner else { unreachable!() };`
IntoFragments ==
    /\ pc = "packet"
    /\ IF packet.inner.side # "Tx"
       THEN /\ pc' = "unreachable"
            /\ frag' = NoFragment
       ELSE LET tx == packet.inner
                first == FirstFragSize(tx.max_pkt_size, tx.addr)
                none  == FragSizeAddrNone(tx.max_pkt_size)
            IN  \/ /\ \/ SizeOverflows(tx.max_pkt_size, tx.addr)
                      \/ FragTotalDividesByZero(first, none, Len(payload))
                   /\ pc' = "panic"
                   /\ frag' = NoFragment
                \/ /\ ~FragTotalDividesByZero(first, none, Len(payload))
                   /\ pc' = "iter"
                   /\ frag' = FragmentNew(tx.assoc_id, tx.pkt_id, tx.addr,
                                          tx.max_pkt_size, Len(payload))
    /\ packet' = PacketMoved
    /\ UNCHANGED <<args, payload, emitted, exhausted, nones, rxVars, lifeVars, auxVars>>

\* The room of an address-less fragment, whatever self.addr is.
PayloadSizeAddrNone(self) ==
    WrappingSub(WrappingSub(self.max_pkt_size, LenWithoutAddr), AddrLen(AddrNone))

\* let payload_size = self.max_pkt_size - len_without_addr() - self.addr.len();
PayloadSize(self) ==
    WrappingSub(WrappingSub(self.max_pkt_size, LenWithoutAddr), AddrLen(self.addr))

\* The end of the next slice without the clamp to the payload's length.
NextFragEndUnclamped(self, payload_len) ==
    WrappingAdd(self.next_frag_start, PayloadSize(self))

\* let next_frag_end = (self.next_frag_start + payload_size).min(self.payload.len());
NextFragEnd(self, payload_len) ==
    Min(WrappingAdd(self.next_frag_start, PayloadSize(self)), payload_len)

\* self.addr.clone() in place of self.addr.take(): the address stays.
HeaderAddrCloned(self) == [taken |-> self.addr, left |-> self.addr]

\* The Address the header gets, and the one left in self.addr: self.addr.take()
HeaderAddr(self) == AddrTake(self.addr)

\* &self.payload[start..end]
Slice(buf, start, end) == SubSeq(buf, start + 1, end)

\* A header numbered from one: frag_id taken after the increment.
NextHeaderOneBased(self, payload_len) ==
    PacketHeaderNew(self.assoc_id, self.pkt_id, self.frag_total,
                    self.next_frag_id + 1,
                    AsU16(NextFragEnd(self, payload_len) - self.next_frag_start),
                    HeaderAddr(self).taken)

\* Header::Packet(PacketHeader::new(..)) of the fragment next() is about to yield.
NextHeader(self, payload_len) ==
    PacketHeaderNew(self.assoc_id, self.pkt_id, self.frag_total,
                    self.next_frag_id,
                    AsU16(NextFragEnd(self, payload_len) - self.next_frag_start),
                    HeaderAddr(self).taken)

\* The iterator after yielding: self.addr taken, next_frag_id += 1,
\* next_frag_start = next_frag_end.
Advance(self, payload_len) ==
    [self EXCEPT !.addr = HeaderAddr(self).left,
                 !.next_frag_id = self.next_frag_id + 1,
                 !.next_frag_start = NextFragEnd(self, payload_len)]

\* A test that lets next() run once more at next_frag_id == frag_total.
HasNextInclusive(self) == self.next_frag_id <= self.frag_total

\* if self.next_frag_id < self.frag_total { .. Some(..) } else { None }
HasNext(self) == self.next_frag_id < self.frag_total

\* start..end is a range of a buffer of the given length; indexing with
\* any other range panics.
SliceInRange(start, end, len) == start <= end /\ end <= len

\* <Fragment as Iterator>::next
FragmentNext ==
    /\ pc = "iter"
    /\ IF HasNext(frag)
       THEN IF SliceInRange(frag.next_frag_start,
                            NextFragEnd(frag, Len(payload)), Len(payload))
            THEN /\ emitted' = Append(emitted,
                       [header  |-> NextHeader(frag, Len(payload)),
                        payload |-> Slice(payload, frag.next_frag_start,
                                          NextFragEnd(frag, Len(payload)))])
                 /\ frag' = Advance(frag, Len(payload))
                 /\ UNCHANGED <<pc, exhausted, nones>>
            ELSE /\ pc' = "panic"
                 /\ UNCHANGED <<frag, emitted, exhausted, nones>>
       ELSE /\ exhausted' = TRUE
            /\ nones' = Min(nones + 1, MaxNones)
            /\ UNCHANGED <<pc, frag, emitted>>
    /\ UNCHANGED <<args, packet, payload, rxVars, lifeVars, auxVars>>

\* <Fragment as ExactSizeIterator>::len
FragmentLen(self) == self.frag_total

(***************************************************************************)
(* Specification of one packet's fragmentation.                            *)
(***************************************************************************)
InitRx ==
    /\ rx_table = <<>>
    /\ rx_out = <<>>
    /\ rx_seen = {}
    /\ rx_redelivered = FALSE
    /\ rx_late = FALSE

\* No I/O call has been made; no command line has been parsed.
NoIo     == [call |-> "none", id |-> 0, half |-> "none",
             transport |-> "none", returned |-> "none"]
NoArgs   == [given |-> FALSE]
NoResult == [tag |-> "none"]

\* The connection holds the StreamReg it hands clones of to its streams.
ArcBase == 1

InitLife ==
    /\ task_count = 0
    /\ free_regs = 0
    /\ connects = <<>>
    /\ arc_strong = ArcBase
    /\ streams = <<>>
    /\ op = <<"none", 0>>
    /\ io = NoIo
    /\ cfg_args = NoArgs
    /\ cfg_result = NoResult

InitFrom(inputs) ==
    /\ pc = "packet"
    /\ \E in \in inputs, id \in PacketIds, seed \in Seeds :
          /\ args = [assoc_id |-> id[1], pkt_id |-> id[2], addr |-> in.addr,
                      max_pkt_size |-> in.max_pkt_size]
          /\ packet = PacketNew(id[1], id[2], in.addr, in.max_pkt_size)
          /\ payload = MkPayload(in.len, seed)
    /\ frag = NoFragment
    /\ emitted = <<>>
    /\ exhausted = FALSE
    /\ nones = 0
    /\ InitRx
    /\ InitLife

Init == InitFrom(Inputs)

Next ==
    \/ IntoFragments
    \/ FragmentNext

\* One packet's fragmentation under a budget of more than 2^16 bytes.
SpecWide == InitFrom(WideInputs) /\ [][Next]_vars

Spec == Init /\ [][Next]_vars

(***************************************************************************)
(* The receive-side reassembler (specification section 4.3): a table       *)
(* keyed by (assoc_id, pkt_id) of partial records with one slot per        *)
(* frag_id; a record is emitted and removed when all its slots are         *)
(* filled.  Eviction by age is a policy of the receiver and is not part    *)
(* of this model.                                                          *)
(***************************************************************************)
MaxRxOut == 2     \* datagrams the reassembler may emit in one behaviour

EmptySlot == [filled |-> FALSE, data |-> <<>>]

\* A fresh partial-assembly record for a packet of frag_total fragments.
RxRecordNew(frag_total) ==
    [frag_total |-> frag_total,
     slots |-> [k \in 0..(frag_total - 1) |-> EmptySlot],
     addr |-> AddrNone]

\* Fill slot frag_id; a duplicate overwrites.  Fragment 0 brings the address.
RxFill(rec, h, data) ==
    [rec EXCEPT !.slots[h.frag_id] = [filled |-> TRUE, data |-> data],
                !.addr = IF h.frag_id = 0 THEN h.addr ELSE rec.addr]

RxComplete(rec) == \A k \in DOMAIN rec.slots : rec.slots[k].filled

RECURSIVE RxConcat(_, _)
\* The payload of slots k .. frag_total-1, in frag_id order.
RxConcat(rec, k) ==
    IF k >= rec.frag_total THEN <<>>
    ELSE rec.slots[k].data \o RxConcat(rec, k + 1)

RxRemove(table, key) == [k \in DOMAIN table \ {key} |-> table[k]]

\* The reassembler's handling of one incoming fragment.
RxAccept(table, out, h, data) ==
    LET key == <<h.assoc_id, h.pkt_id>>
        old == IF key \in DOMAIN table THEN table[key]
               ELSE RxRecordNew(h.frag_total)
    IN  IF h.frag_total # old.frag_total \/ h.frag_id >= h.frag_total
        THEN [table |-> table, out |-> out]        \* mismatch: dropped
        ELSE LET rec == RxFill(old, h, data)
             IN  IF RxComplete(rec)
                 THEN [table |-> RxRemove(table, key),
                       out |-> Append(out, [addr |-> rec.addr,
                                            payload |-> RxConcat(rec, 0)])]
                 ELSE [table |-> [k \in DOMAIN table \cup {key} |->
                                     IF k = key THEN rec ELSE table[k]],
                       out |-> out]

\* The channel delivers the i-th emitted fragment (again, possibly).
RxDeliver(i) ==
    /\ pc = "iter"
    /\ i \in 1..Len(emitted)
    /\ Len(rx_out) < MaxRxOut
    /\ LET r == RxAccept(rx_table, rx_out, emitted[i].header, emitted[i].payload)
       IN  /\ rx_table' = r.table
           /\ rx_out' = r.out
    /\ rx_seen' = rx_seen \cup {i}
    /\ rx_redelivered' = (rx_redelivered \/ (i \in rx_seen /\ rx_out = <<>>))
    /\ rx_late' = (rx_late \/ rx_out # <<>>)
    /\ UNCHANGED <<fragVars, lifeVars, auxVars>>

\* Packets of a few fragments, and the three shortest payloads whose
\* fragment count passes the one-byte ceiling.
MaxRxLen   == 8
RxPktSizes == {12, 16}
RxInputs ==
    [max_pkt_size : RxPktSizes, addr : {AddrNone, AddrV4}, len : 0..MaxRxLen]
    \cup [max_pkt_size : {10}, addr : {AddrNone}, len : {255, 256, 257}]

InitRxSpec == InitFrom(RxInputs)

NextRx ==
    \/ IntoFragments
    \/ FragmentNext
    \/ \E i \in 1..Len(emitted) : RxDeliver(i)

SpecRx == InitRxSpec /\ [][NextRx]_vars

(***************************************************************************)
(* Task registration (specification section 4.5) and Connect<Tx>           *)
(* (connect.rs).                                                           *)
(***************************************************************************)
MaxRegs     == 3    \* TaskRegister handles alive at once
MaxConnects == 2    \* Connect<Tx> values alive at once
MaxStreams  == 2    \* Stream values alive at once

ConnectIds == 1..MaxConnects
StreamIds  == 1..MaxStreams

\* Without the key `id`.
Without(f, id) == [k \in DOMAIN f \ {id} |-> f[k]]
\* With `id` mapped to `v`.
With(f, id, v) == [k \in DOMAIN f \cup {id} |-> IF k = id THEN v ELSE f[k]]

\* Creating a handle: the live count goes up by one.
TaskRegisterNew ==
    /\ task_count < MaxRegs
    /\ task_count' = task_count + 1
    /\ free_regs' = free_regs + 1
    /\ op' = <<"register", 0>>
    /\ UNCHANGED <<fragVars, rxVars, auxVars, connects, arc_strong, streams>>

\* Dropping a handle the caller still holds.
TaskRegisterDrop ==
    /\ free_regs > 0
    /\ task_count' = task_count - 1
    /\ free_regs' = free_regs - 1
    /\ op' = <<"unregister", 0>>
    /\ UNCHANGED <<fragVars, rxVars, auxVars, connects, arc_strong, streams>>

\* Header::Connect(ConnectHeader::new(addr))
ConnectHeaderNew(addr) == [type |-> "Connect", addr |-> addr]

\* The value Connect::<side::Tx>::new builds.
ConnectValue(addr) ==
    [inner  |-> [side |-> "Tx", header |-> ConnectHeaderNew(addr),
                 task_reg |-> TRUE],
     marker |-> "Tx"]

\* A constructor that lets task_reg fall out of scope instead of storing it.
ConnectNewDropsReg(id, addr) ==
    /\ id \notin DOMAIN connects
    /\ free_regs > 0
    /\ free_regs' = free_regs - 1
    /\ task_count' = task_count - 1
    /\ connects' = With(connects, id,
           [ConnectValue(addr) EXCEPT !.inner.task_reg = FALSE])
    /\ op' = <<"connect_new", id>>
    /\ UNCHANGED <<fragVars, rxVars, auxVars, arc_strong, streams>>

\* Connect::<side::Tx>::new(task_reg, addr): the handle moves into the value.
ConnectNew(id, addr) ==
    /\ id \notin DOMAIN connects
    /\ free_regs > 0
    /\ free_regs' = free_regs - 1
    /\ connects' = With(connects, id, ConnectValue(addr))
    /\ op' = <<"connect_new", id>>
    /\ UNCHANGED <<fragVars, rxVars, auxVars, task_count, arc_strong, streams>>

\* Connect::<side::Tx>::header(&self)
ConnectHeader(c) == c.inner.header

\* A call of Connect::<side::Tx>::header(&self):
\* `let Side::Tx(tx) = &self.inner else { unreachable!() }; &tx.header`
ConnectHeaderCall(id) ==
    /\ id \in DOMAIN connects
    /\ pc' = IF connects[id].inner.side = "Tx" THEN pc ELSE "unreachable"
    /\ op' = <<"connect_header", id>>
    /\ UNCHANGED <<args, packet, payload, frag, emitted, exhausted, nones, rxVars,
                   auxVars, task_count, free_regs, connects, arc_strong, streams>>

\* Dropping a Connect<Tx> drops its fields, the handle among them.
ConnectDrop(id) ==
    /\ id \in DOMAIN connects
    /\ connects' = Without(connects, id)
    /\ task_count' = task_count - (IF connects[id].inner.task_reg THEN 1 ELSE 0)
    /\ op' = <<"connect_drop", id>>
    /\ UNCHANGED <<fragVars, rxVars, auxVars, free_regs, arc_strong, streams>>

\* Packet::<side::Tx>::new(assoc_id, pkt_id, addr, max_pkt_size): no handle
\* is taken.
PacketNewStep ==
    /\ pc = "idle"
    /\ \E in \in [max_pkt_size : {32}, addr : Addresses], id \in PacketIds :
          /\ args' = [assoc_id |-> id[1], pkt_id |-> id[2], addr |-> in.addr,
                       max_pkt_size |-> in.max_pkt_size]
          /\ packet' = PacketNew(id[1], id[2], in.addr, in.max_pkt_size)
    /\ pc' = "packet"
    /\ op' = <<"packet_new", 0>>
    /\ UNCHANGED <<payload, frag, emitted, exhausted, nones, rxVars, auxVars,
                   task_count, free_regs, connects, arc_strong, streams>>

\* Dropping a Packet<Tx> that was never turned into fragments.
PacketDrop ==
    /\ pc = "packet"
    /\ pc' = "idle"
    /\ packet' = PacketMoved
    /\ op' = <<"packet_drop", 0>>
    /\ UNCHANGED <<args, payload, frag, emitted, exhausted, nones, rxVars, auxVars,
                   task_count, free_regs, connects, arc_strong, streams>>

\* Dropping the Fragment iterator into_fragments returned.
FragmentDrop ==
    /\ pc = "iter"
    /\ pc' = "idle"
    /\ frag' = NoFragment
    /\ emitted' = <<>>
    /\ exhausted' = FALSE
    /\ nones' = 0
    /\ op' = <<"fragment_drop", 0>>
    /\ UNCHANGED <<args, packet, payload, rxVars, auxVars,
                   task_count, free_regs, connects, arc_strong, streams>>

(***************************************************************************)
(* SendStream, RecvStream, Stream (stream.rs).  The quinn halves are the   *)
(* transport's: a send half is "open", "finishing", "finished" or          *)
(* "failed"; a receive half is "open", "eof" or "failed".                  *)
(***************************************************************************)
\* SendStream::new(send, reg)
SendStreamNew(send, reg) == [quinn |-> send, reg |-> reg]

\* RecvStream::new(recv, reg)
RecvStreamNew(recv, reg) == [quinn |-> recv, reg |-> reg]

\* Stream::new(send, recv); `finish` is the state of the finish() future:
\* "never" called, "dropped" unpolled, "pending", resolved "ok" or "err".
StreamValue(send, recv) == [send |-> send, recv |-> recv, finish |-> "never"]

\* Opening a stream: the connection clones its StreamReg once for each
\* half and pairs the halves.
StreamNew(id) ==
    /\ id \notin DOMAIN streams
    /\ arc_strong' = arc_strong + 2
    /\ streams' = With(streams, id,
           StreamValue(SendStreamNew("open", TRUE), RecvStreamNew("open", TRUE)))
    /\ op' = <<"stream_new", id>>
    /\ UNCHANGED <<fragVars, rxVars, auxVars, task_count, free_regs, connects>>

\* The StreamReg references a Stream's fields hold.
StreamRegs(s) == (IF s.send.reg THEN 1 ELSE 0) + (IF s.recv.reg THEN 1 ELSE 0)

\* A finish() that never reaches the transport's send half.
SendStreamFinishSkipped(send) == send

\* SendStream::finish up to its await: self.0.finish() starts the
\* transport's graceful close of the send half.
SendStreamFinishCall(send) ==
    [send EXCEPT !.quinn = IF send.quinn = "open" THEN "finishing" ELSE @]

\* SendStream::finish after its await: the transport's result r.
SendStreamFinishReady(send, r) ==
    [send EXCEPT !.quinn = IF send.quinn = "finishing"
                            THEN (IF r = "ok" THEN "finished" ELSE "failed")
                            ELSE @]

\* A finish() that shuts the receive half as well.
StreamFinishCallBothHalves(s) ==
    [s EXCEPT !.send = SendStreamFinishCall(s.send), !.finish = "pending",
              !.recv.quinn = "failed"]

\* Stream::finish(&mut self) is called: self.0.finish()
StreamFinishCall(s) ==
    [s EXCEPT !.send = SendStreamFinishCall(s.send), !.finish = "pending"]

\* Stream::finish resumes from .await with the transport's result.
StreamFinishReady(s, r) ==
    [s EXCEPT !.send = SendStreamFinishReady(s.send, r),
              !.finish = IF r = "ok" /\ s.send.quinn = "finishing"
                         THEN "ok" ELSE "err"]

FinishCall(id) ==
    /\ id \in DOMAIN streams
    /\ streams[id].finish # "pending"
    /\ streams' = [streams EXCEPT ![id] = StreamFinishCall(streams[id])]
    /\ op' = <<"finish", id>>
    /\ UNCHANGED <<fragVars, rxVars, auxVars, task_count, free_regs, connects, arc_strong>>

FinishReady(id) ==
    /\ id \in DOMAIN streams
    /\ streams[id].finish = "pending"
    /\ \E r \in {"ok", "err"} :
          streams' = [streams EXCEPT ![id] = StreamFinishReady(streams[id], r)]
    /\ op' = <<"finish", id>>
    /\ UNCHANGED <<fragVars, rxVars, auxVars, task_count, free_regs, connects, arc_strong>>

\* <Stream as AsyncRead>::poll_read: Pin::new(&mut self.1).poll_read(cx, buf);
\* the receive half stays open, reaches the end of the stream, or fails.
StreamPollRead(s, r) ==
    [s EXCEPT !.recv.quinn = IF s.recv.quinn = "open" THEN r ELSE @]

\* What poll_read hands back to the caller: the receive half's result.
StreamPollReadReturns(s, r) == r

PollRead(id) ==
    /\ id \in DOMAIN streams
    /\ \E r \in {"open", "eof", "failed"} :
          /\ streams' = [streams EXCEPT ![id] = StreamPollRead(streams[id], r)]
          /\ io' = [call |-> "poll_read", id |-> id, half |-> "recv",
                    transport |-> r,
                    returned |-> StreamPollReadReturns(streams[id], r)]
    /\ op' = <<"poll_read", id>>
    /\ UNCHANGED <<fragVars, rxVars, cfgVars, task_count, free_regs, connects, arc_strong>>

\* A drop that releases the send half's StreamReg only.
StreamDropSendOnly(id) ==
    /\ id \in DOMAIN streams
    /\ arc_strong' = arc_strong - 1
    /\ streams' = Without(streams, id)
    /\ op' = <<"stream_drop_" \o streams[id].finish, id>>
    /\ UNCHANGED <<fragVars, rxVars, auxVars, task_count, free_regs, connects>>

\* Dropping a Stream drops both halves, and with them both StreamRegs.
\* A pending finish() future borrows the Stream and is dropped first.
StreamDrop(id) ==
    /\ id \in DOMAIN streams
    /\ arc_strong' = arc_strong - StreamRegs(streams[id])
    /\ streams' = Without(streams, id)
    /\ op' = <<"stream_drop_" \o streams[id].finish, id>>
    /\ UNCHANGED <<fragVars, rxVars, auxVars, task_count, free_regs, connects>>

(***************************************************************************)
(* Writing (stream.rs:47-126).  The transport's send half answers a write  *)
(* with "ok" (bytes taken), "pending" or "err"; once it is no longer       *)
(* "open" (finishing, finished or failed) it answers every write with      *)
(* "err".                                                                  *)
(***************************************************************************)
Outcomes == {"ok", "pending", "err"}

\* The results the transport's send half can produce for a write.
QuinnWriteOutcomes(state) == IF state = "open" THEN Outcomes ELSE {"err"}

\* The transport's send half after a write answered r.
QuinnAfterWrite(state, r) ==
    IF state = "open" /\ r = "err" THEN "failed" ELSE state

\* The transport's send half after poll_shutdown answered r: shutting
\* down is the graceful close of the half.
QuinnAfterShutdown(state, r) ==
    IF state \in {"open", "finishing"}
    THEN CASE r = "ok" -> "finished" [] r = "pending" -> "finishing"
           [] r = "err" -> "failed"
    ELSE state

\* <SendStream as AsyncWrite>::poll_write: Pin::new(&mut self.0).poll_write(cx, buf)
SendStreamPollWrite(send, r) ==
    [half |-> [send EXCEPT !.quinn = QuinnAfterWrite(send.quinn, r)],
     returned |-> r]

\* <SendStream as AsyncWrite>::poll_write_vectored
SendStreamPollWriteVectored(send, r) ==
    [half |-> [send EXCEPT !.quinn = QuinnAfterWrite(send.quinn, r)],
     returned |-> r]

\* <SendStream as AsyncWrite>::poll_flush
SendStreamPollFlush(send, r) == [half |-> send, returned |-> r]

\* <SendStream as AsyncWrite>::poll_shutdown
SendStreamPollShutdown(send, r) ==
    [half |-> [send EXCEPT !.quinn = QuinnAfterShutdown(send.quinn, r)],
     returned |-> r]

\* A poll_write that reports a failed write as zero bytes written.
StreamPollWriteSwallowsErr(s, r) ==
    [stream |-> [s EXCEPT !.send = SendStreamPollWrite(s.send, r).half],
     returned |-> IF r = "err" THEN "ok" ELSE r]

\* <Stream as AsyncWrite>::poll_write: Pin::new(&mut self.0).poll_write(cx, buf)
StreamPollWrite(s, r) ==
    [stream |-> [s EXCEPT !.send = SendStreamPollWrite(s.send, r).half],
     returned |-> SendStreamPollWrite(s.send, r).returned]

\* <Stream as AsyncWrite>::poll_write_vectored
StreamPollWriteVectored(s, r) ==
    [stream |-> [s EXCEPT !.send = SendStreamPollWriteVectored(s.send, r).half],
     returned |-> SendStreamPollWriteVectored(s.send, r).returned]

\* <Stream as AsyncWrite>::poll_flush
StreamPollFlush(s, r) ==
    [stream |-> [s EXCEPT !.send = SendStreamPollFlush(s.send, r).half],
     returned |-> SendStreamPollFlush(s.send, r).returned]

\* <Stream as AsyncWrite>::poll_shutdown
StreamPollShutdown(s, r) ==
    [stream |-> [s EXCEPT !.send = SendStreamPollShutdown(s.send, r).half],
     returned |-> SendStreamPollShutdown(s.send, r).returned]

\* One I/O call on the send half of stream id: the transport answers r,
\* the wrapper w(s, r) gives the stream afterwards and what is returned.
SendIo(id, call, r, w) ==
    /\ streams' = [streams EXCEPT ![id] = w.stream]
    /\ io' = [call |-> call, id |-> id, half |-> "send",
              transport |-> r, returned |-> w.returned]
    /\ op' = <<call, id>>
    /\ UNCHANGED <<fragVars, rxVars, cfgVars, task_count, free_regs, connects,
                   arc_strong>>

PollWrite(id) ==
    /\ id \in DOMAIN streams
    /\ \E r \in QuinnWriteOutcomes(streams[id].send.quinn) :
          SendIo(id, "poll_write", r, StreamPollWrite(streams[id], r))

PollWriteVectored(id) ==
    /\ id \in DOMAIN streams
    /\ \E r \in QuinnWriteOutcomes(streams[id].send.quinn) :
          SendIo(id, "poll_write_vectored", r,
                 StreamPollWriteVectored(streams[id], r))

PollFlush(id) ==
    /\ id \in DOMAIN streams
    /\ \E r \in Outcomes :
          SendIo(id, "poll_flush", r, StreamPollFlush(streams[id], r))

PollShutdown(id) ==
    /\ id \in DOMAIN streams
    /\ \E r \in Outcomes :
          SendIo(id, "poll_shutdown", r, StreamPollShutdown(streams[id], r))

\* Stream::finish is an `async fn`: calling it only builds a future.  Here
\* the future is dropped before it is ever polled, so self.0.finish() is
\* not reached; the stream is as it was.
FinishUnpolled(id) ==
    /\ id \in DOMAIN streams
    /\ streams[id].finish # "pending"
    /\ streams' = [streams EXCEPT ![id].finish =
                       IF @ = "never" THEN "dropped" ELSE @]
    /\ op' = <<"finish_unpolled", id>>
    /\ UNCHANGED <<fragVars, rxVars, auxVars, task_count, free_regs, connects,
                   arc_strong>>

InitLifeSpec ==
    /\ pc = "idle"
    /\ args = [assoc_id |-> 0, pkt_id |-> 0, addr |-> AddrNone, max_pkt_size |-> 0]
    /\ packet = PacketMoved
    /\ payload = <<>>
    /\ frag = NoFragment
    /\ emitted = <<>>
    /\ exhausted = FALSE
    /\ nones = 0
    /\ InitRx
    /\ InitLife

\* Task registration and the Tx-side protocol objects.
NextTask ==
    \/ TaskRegisterNew
    \/ TaskRegisterDrop
    \/ \E id \in ConnectIds, addr \in {AddrV4, AddrDomain} : ConnectNew(id, addr)
    \/ \E id \in ConnectIds : ConnectDrop(id)
    \/ PacketNewStep
    \/ PacketDrop

SpecTask == InitLifeSpec /\ [][NextTask]_vars

\* The public operations of the Tx-side objects, uses included.
NextSide ==
    \/ NextTask
    \/ \E id \in ConnectIds : ConnectHeaderCall(id)
    \/ IntoFragments
    \/ FragmentNext
    \/ FragmentDrop

SpecSide == InitLifeSpec /\ [][NextSide]_vars

\* The streams of one connection.
NextStream ==
    \/ \E id \in StreamIds : StreamNew(id)
    \/ \E id \in StreamIds : FinishCall(id)
    \/ \E id \in StreamIds : FinishReady(id)
    \/ \E id \in StreamIds : PollRead(id)
    \/ \E id \in StreamIds : StreamDrop(id)

SpecStream == InitLifeSpec /\ [][NextStream]_vars

\* Reading, writing and finishing a stream.
MaxIoStreams == 1
IoStreamIds  == 1..MaxIoStreams

NextIo ==
    \/ \E id \in IoStreamIds : StreamNew(id)
    \/ \E id \in IoStreamIds : FinishUnpolled(id)
    \/ \E id \in IoStreamIds : FinishCall(id)
    \/ \E id \in IoStreamIds : FinishReady(id)
    \/ \E id \in IoStreamIds : PollRead(id)
    \/ \E id \in IoStreamIds : PollWrite(id)
    \/ \E id \in IoStreamIds : PollWriteVectored(id)
    \/ \E id \in IoStreamIds : PollFlush(id)
    \/ \E id \in IoStreamIds : PollShutdown(id)
    \/ \E id \in IoStreamIds : StreamDrop(id)

SpecIo == InitLifeSpec /\ [][NextIo]_vars

(***************************************************************************)
(* ConfigBuilder::parse (client config.rs).  Strings are sequences of      *)
(* bytes; an Option is a record with `some`.  The command line is what     *)
(* getopts made of it: a failure, or the matches.                          *)
(***************************************************************************)
NoneOpt == [some |-> FALSE]
Some(v) == [some |-> TRUE, val |-> v]

\* "443", "65536", "x", "5", "", "u", "pw", "10.0.0.1", "a.pem"
Str443      == <<52, 52, 51>>
Str65536    == <<54, 53, 53, 51, 54>>
StrX        == <<120>>
Str5        == <<53>>
StrEmpty    == <<>>
StrU        == <<117>>
StrPw       == <<112, 119>>
StrIp       == <<49, 48, 46, 48, 46, 48, 46, 49>>
StrPem      == <<97, 46, 112, 101, 109>>

U16Max == 65535

\* The value of a string of ASCII digits.
RECURSIVE DecimalValue(_)
DecimalValue(str) ==
    IF str = <<>> THEN 0
    ELSE 10 * DecimalValue(SubSeq(str, 1, Len(str) - 1)) + (str[Len(str)] - 48)

IsDecimal(str) == str # <<>> /\ \A i \in 1..Len(str) : str[i] \in 48..57

\* str.parse::<uN>(): Err on an empty string, a non-digit, or a value
\* above the type's maximum.
ParseUnsigned(str, max) ==
    IF IsDecimal(str) /\ DecimalValue(str) <= max
    THEN [ok |-> TRUE, val |-> DecimalValue(str)]
    ELSE [ok |-> FALSE]

\* str.parse::<IpAddr>() on the strings drawn here.
ParseIpAddr(str) ==
    IF str = StrIp THEN [ok |-> TRUE, val |-> <<10, 0, 0, 1>>]
    ELSE [ok |-> FALSE]

\* The command lines: getopts' outcome and, for matches, the free
\* arguments, the flags and the option values.
CommandLines ==
    [given : {TRUE}, fail : BOOLEAN, free : BOOLEAN, v : BOOLEAN, h : BOOLEAN,
     s : {StrX}, p : {Str443, Str65536}, t : {StrU},
     server_ip : {NoneOpt, Some(StrIp), Some(StrX)},
     number_of_retries : {NoneOpt, Some(Str5), Some(StrEmpty)},
     l : {Str443, StrX},
     allow_external_connection : BOOLEAN,
     cert : {NoneOpt, Some(StrPem)},
     socks5_username : {NoneOpt, Some(StrEmpty), Some(StrU)},
     socks5_password : {NoneOpt, Some(StrPw)}]

Err(e)     == [tag |-> "Err", error |-> e]
Ok(config) == [tag |-> "Ok", config |-> config]

Socks5None == [type |-> "None"]
Socks5Password(username, password) ==
    [type |-> "Password", username |-> username, password |-> password]

\* A match whose last arm takes a lone username or password for none.
Socks5AuthenticationLenient(username, password) ==
    IF username.some /\ password.some
    THEN [ok |-> TRUE, val |-> Socks5Password(username.val, password.val)]
    ELSE [ok |-> TRUE, val |-> Socks5None]

\* match (opt_str("socks5-username"), opt_str("socks5-password")) { .. }
Socks5Authentication(username, password) ==
    CASE ~username.some /\ ~password.some -> [ok |-> TRUE, val |-> Socks5None]
      [] username.some /\ password.some ->
            [ok |-> TRUE, val |-> Socks5Password(username.val, password.val)]
      [] OTHER -> [ok |-> FALSE]

\* let server_addr = { .. }, given the parsed port.
ServerAddrOf(m, server_port) ==
    IF m.server_ip.some
    THEN [type |-> "SocketAddr",
          server_addr |-> <<ParseIpAddr(m.server_ip.val).val, server_port>>,
          server_name |-> m.s]
    ELSE [type |-> "HostnameAddr", hostname |-> m.s, server_port |-> server_port]

\* seahash::hash(&token.into_bytes()): some function of the bytes.
TokenHash(bytes) == [seahash |-> bytes]

DefaultNumberOfRetries == 3

\* let local_addr = { .. }, given the parsed port.
LocalAddrOf(m, local_port) ==
    IF m.allow_external_connection
    THEN <<<<0, 0, 0, 0>>, local_port>>
    ELSE <<<<127, 0, 0, 1>>, local_port>>

\* ConfigBuilder::parse(&mut self, args), its checks in source order.
Parse(m) ==
    LET server_port == ParseUnsigned(m.p, U16Max)
        retries     == IF m.number_of_retries.some
                       THEN ParseUnsigned(m.number_of_retries.val, UsizeModulus - 1)
                       ELSE [ok |-> TRUE, val |-> DefaultNumberOfRetries]
        local_port  == ParseUnsigned(m.l, U16Max)
        socks5      == Socks5Authentication(m.socks5_username, m.socks5_password)
    IN  CASE m.fail -> Err("Parse")
          [] m.free -> Err("UnexpectedArgument")
          [] m.v -> Err("Version")
          [] m.h -> Err("Help")
          [] ~server_port.ok -> Err("ParsePort")
          [] m.server_ip.some /\ ~ParseIpAddr(m.server_ip.val).ok ->
                Err("ParseServerIp")
          [] ~retries.ok -> Err("ParseNumberOfRetries")
          [] ~local_port.ok -> Err("ParsePort")
          [] ~socks5.ok -> Err("Socks5UsernameAndPassword")
          [] OTHER ->
                Ok([server_addr |-> ServerAddrOf(m, server_port.val),
                    token |-> TokenHash(m.t),
                    number_of_retries |-> retries.val,
                    local_addr |-> LocalAddrOf(m, local_port.val),
                    socks5_authentication |-> socks5.val,
                    certificate_path |-> m.cert])

\* The call of parse on the process's command line.
ConfigParse ==
    /\ cfg_result = NoResult
    /\ \E m \in CommandLines :
          /\ cfg_args' = m
          /\ cfg_result' = Parse(m)
    /\ UNCHANGED <<fragVars, rxVars, lifeVars, io>>

NextConfig == ConfigParse

SpecConfig == InitLifeSpec /\ [][NextConfig]_vars

(***************************************************************************)
(* Vocabulary of the properties.                                           *)
(***************************************************************************)
\* The iterator has been run to its end: next() has returned None.
Done == pc = "iter" /\ exhausted

RECURSIVE ConcatPayloads(_)
ConcatPayloads(items) ==
    IF items = <<>> THEN <<>>
    ELSE items[1].payload \o ConcatPayloads(Tail(items))

\* The lengths of the payload slices yielded so far, in order.
SliceSizes == [i \in 1..Len(emitted) |-> Len(emitted[i].payload)]

\* The payload room of the first and of the later fragments, as integers
\* (negative when the budget is below the header).
RoomFirst == args.max_pkt_size - LenWithoutAddr - AddrLen(args.addr)
RoomLater == args.max_pkt_size - LenWithoutAddr - AddrLen(AddrNone)

\* Ceiling of a / b for a >= 0, b > 0.
CeilDiv(a, b) == (a + b - 1) \div b

\* The payload cannot be cut into fragments of at most max_pkt_size
\* bytes, or needs more than 255 of them.
CannotFit ==
    \/ RoomFirst < 0
    \/ RoomFirst < Len(payload) /\ RoomLater <= 0
TooLarge ==
    \/ CannotFit
    \/ /\ RoomFirst < Len(payload)
       /\ 1 + CeilDiv(Len(payload) - RoomFirst, RoomLater) > 255

(***************************************************************************)
(* C1. Fragmentation completeness: when max_pkt_size leaves room for at    *)
(* least one payload byte in every fragment, the slices yielded by a       *)
(* Fragment run to its end, concatenated in emission order, are the        *)
(* payload.                                                                *)
(***************************************************************************)
C1_Completeness ==
    (Done /\ RoomFirst >= 1) => ConcatPayloads(emitted) = payload

(***************************************************************************)
(* C2. Fragment count bound: frag_total is in 1..255, equals len(), is     *)
(* the frag_total of every emitted header, and is the number of items      *)
(* yielded before the first None.                                          *)
(***************************************************************************)
C2_FragTotalBound ==
    pc = "iter" =>
        /\ frag.frag_total \in 1..255
        /\ FragmentLen(frag) = frag.frag_total
        /\ \A i \in 1..Len(emitted) :
              emitted[i].header.frag_total = FragmentLen(frag)
        /\ exhausted => Len(emitted) = frag.frag_total

(***************************************************************************)
(* C3. PacketTooLarge: for a payload that does not fit the byte budget or  *)
(* needs more than 255 fragments, into_fragments reports PacketTooLarge    *)
(* to its caller: it neither panics nor hands out a Fragment, and nothing  *)
(* is emitted.                                                             *)
(***************************************************************************)
C3_PacketTooLarge ==
    (TooLarge /\ pc # "packet") =>
        /\ pc = "PacketTooLarge"
        /\ emitted = <<>>

(***************************************************************************)
(* C4. Address-once: every emitted header with frag_id >= 1 carries        *)
(* Address::None; the header with frag_id = 0 carries the address given    *)
(* at construction.                                                        *)
(***************************************************************************)
C4_AddressOnce ==
    \A i \in 1..Len(emitted) :
        LET h == emitted[i].header
        IN  /\ h.frag_id >= 1 => h.addr = AddrNone
            /\ h.frag_id = 0 => h.addr = args.addr

\* Three fragments of a packet to a real address have been yielded.
C4_Witness ==
    /\ Len(emitted) >= 3
    /\ args.addr # AddrNone
    /\ emitted[1].header.addr = args.addr
    /\ emitted[3].header.frag_id = 2

(***************************************************************************)
(* C5. Per-fragment size budget: when max_pkt_size >= len_without_addr()   *)
(* + len(addr), every yielded (header, slice) has len_without_addr() +     *)
(* len(header.addr) + slice.len() <= max_pkt_size.                         *)
(***************************************************************************)
C5_SizeBudget ==
    args.max_pkt_size >= LenWithoutAddr + AddrLen(args.addr) =>
        \A i \in 1..Len(emitted) :
            LenWithoutAddr + AddrLen(emitted[i].header.addr)
                + Len(emitted[i].payload) <= args.max_pkt_size

\* A first fragment with an address and a later one without, both filled
\* to the last byte of the budget.
C5_Witness ==
    /\ Len(emitted) >= 2
    /\ args.addr # AddrNone
    /\ \A i \in 1..2 :
          LenWithoutAddr + AddrLen(emitted[i].header.addr)
              + Len(emitted[i].payload) = args.max_pkt_size

(***************************************************************************)
(* C6. The concrete scenario: max_pkt_size = 32, an IPv4 socket address,   *)
(* a payload of 50 bytes.                                                  *)
(***************************************************************************)
Scenario ==
    /\ args.max_pkt_size = 32
    /\ args.addr = AddrV4
    /\ Len(payload) = 50

\* As claimed: first_frag_size = 16, frag_size_addr_none = 23, and three
\* fragments of 16, 23 and 11 bytes.
C6_Claimed ==
    (Scenario /\ Done) =>
        /\ FirstFragSize(args.max_pkt_size, args.addr) = 16
        /\ FragSizeAddrNone(args.max_pkt_size) = 23
        /\ SliceSizes = <<16, 23, 11>>

\* As the code computes it with the 7-byte encoding of an IPv4 socket
\* address (tag, 4 IP bytes, port): first_frag_size = 17,
\* frag_size_addr_none = 23, three fragments of 17, 23 and 10 bytes.
C6_Scenario ==
    (Scenario /\ Done) =>
        /\ LenWithoutAddr = 8
        /\ FirstFragSize(args.max_pkt_size, args.addr) = 17
        /\ FragSizeAddrNone(args.max_pkt_size) = 23
        /\ frag.frag_total = 3
        /\ SliceSizes = <<17, 23, 10>>
        /\ [i \in 1..3 |-> emitted[i].header.size] = <<17, 23, 10>>
        /\ ConcatPayloads(emitted) = payload

C6_Witness == Scenario /\ Done /\ Len(emitted) = 3

(***************************************************************************)
(* C7. Round trip through the reassembler: once every fragment of a fully  *)
(* fragmented packet has been delivered, in whatever order and with        *)
(* whatever repetitions before completion, the reassembler has emitted     *)
(* exactly one datagram, and it is the original (address, payload).        *)
(***************************************************************************)
AllDelivered ==
    /\ Done
    /\ Len(emitted) >= 1
    /\ rx_seen = 1..Len(emitted)
    /\ ~rx_late

C7_RoundTrip ==
    AllDelivered => rx_out = <<[addr |-> args.addr, payload |-> payload]>>

(***************************************************************************)
(* C8. Tx-side liveness, as claimed: whenever a Connect<Tx> or a           *)
(* Packet<Tx> exists, the registration's live count is above zero.         *)
(***************************************************************************)
C8_TxOwnsRegister ==
    (DOMAIN connects # {} \/ pc = "packet") => task_count > 0

\* C8 as the code has it: every Connect<Tx> owns one handle from its
\* construction to its drop, so the live count is at least the number of
\* Connect<Tx> values and above zero while one exists; a Packet<Tx> owns
\* no handle.
C8_ConnectOwnsRegister ==
    /\ \A id \in DOMAIN connects : connects[id].inner.task_reg
    /\ task_count = free_regs + Cardinality(DOMAIN connects)
    /\ DOMAIN connects # {} => task_count > 0
    /\ pc = "packet" => "task_reg" \notin DOMAIN packet.inner

\* The only live handle is the one a Connect<Tx> owns, next to a Packet<Tx>.
C8_Witness ==
    /\ Cardinality(DOMAIN connects) = 1
    /\ free_regs = 0
    /\ task_count = 1
    /\ pc = "packet"

(***************************************************************************)
(* C9. Stream drop releases liveness: every Stream that exists holds two   *)
(* StreamReg references, one in each half, and a dropped Stream holds      *)
(* none, whatever the state of finish() was when it was dropped: the       *)
(* strong count is the connection's own reference plus two per Stream.     *)
(***************************************************************************)
C9_StreamDropReleasesBoth ==
    /\ \A id \in DOMAIN streams :
          /\ streams[id].send.reg
          /\ streams[id].recv.reg
          /\ StreamRegs(streams[id]) = 2
    /\ arc_strong = ArcBase + 2 * Cardinality(DOMAIN streams)

\* The last stream was dropped while its finish() was pending.
C9_Witness ==
    /\ op[1] = "stream_drop_pending"
    /\ DOMAIN streams = {}
    /\ arc_strong = ArcBase

(***************************************************************************)
(* C10. finish() affects the send half only: a step of Stream::finish      *)
(* leaves the stream's receive half, every other stream, and the           *)
(* StreamReg count as they were, and the stream still holds both           *)
(* references.                                                             *)
(***************************************************************************)
C10_FinishSendHalfOnly ==
    [][\A id \in StreamIds :
          op' = <<"finish", id>> =>
              /\ id \in DOMAIN streams /\ id \in DOMAIN streams'
              /\ streams'[id].recv = streams[id].recv
              /\ streams'[id].send.reg = streams[id].send.reg
              /\ StreamRegs(streams'[id]) = 2
              /\ arc_strong' = arc_strong
              /\ \A o \in DOMAIN streams \ {id} :
                    o \in DOMAIN streams' /\ streams'[o] = streams[o]]_vars

\* finish() has resolved Ok on a stream whose receive half is still open.
C10_Witness ==
    \E id \in DOMAIN streams :
        /\ op = <<"finish", id>>
        /\ streams[id].finish = "ok"
        /\ streams[id].send.quinn = "finished"
        /\ streams[id].recv.quinn = "open"
        /\ arc_strong = ArcBase + 2 * Cardinality(DOMAIN streams)

(***************************************************************************)
(* C11. No write after finish, as claimed: a poll_write or                 *)
(* poll_write_vectored on a stream whose finish() has been called returns  *)
(* an I/O error.                                                           *)
(***************************************************************************)
WriteCalls == {"poll_write", "poll_write_vectored"}

C11_NoWriteAfterFinishCalled ==
    \A id \in DOMAIN streams :
        (op[1] \in WriteCalls /\ op[2] = id /\ streams[id].finish # "never")
            => io.returned = "err"

\* C11 as the code has it: finish() is an async fn, so a call whose future
\* is dropped unpolled does nothing; once the future has been polled
\* (finish pending, resolved Ok or resolved Err), every later write
\* returns an I/O error.
C11_NoWriteAfterFinishPolled ==
    \A id \in DOMAIN streams :
        (op[1] \in WriteCalls /\ op[2] = id
            /\ streams[id].finish \in {"pending", "ok", "err"})
            => io.returned = "err"

\* A write on a stream whose finish() resolved Ok was answered with an error.
C11_Witness ==
    \E id \in DOMAIN streams :
        /\ op = <<"poll_write", id>>
        /\ streams[id].finish = "ok"
        /\ streams[id].send.quinn = "finished"
        /\ io.returned = "err"

(***************************************************************************)
(* C12. Fragment count formula: for every payload length, frag_total is 1  *)
(* when the payload fits the first fragment and otherwise                  *)
(* 1 + ceil((payload_len - first_frag_size) / frag_size_addr_none),        *)
(* exact multiples included.                                               *)
(***************************************************************************)
FragTotalClaimed(first_frag_size, frag_size_addr_none, payload_len) ==
    IF payload_len <= first_frag_size
    THEN 1
    ELSE 1 + CeilDiv(payload_len - first_frag_size, frag_size_addr_none)

C12_FragTotalFormula ==
    (pc = "iter" /\ RoomFirst >= 0 /\ RoomLater > 0)
        => frag.frag_total = FragTotalClaimed(RoomFirst, RoomLater, Len(payload))

(***************************************************************************)
(* C13. Header sequence invariant: the i-th emitted header carries         *)
(* frag_id = i - 1, below frag_total, and the assoc_id, pkt_id and         *)
(* frag_total fixed at construction; a whole iteration emits exactly       *)
(* frag_total headers, so each frag_id 0 .. frag_total-1 appears once, in  *)
(* increasing order.                                                       *)
(***************************************************************************)
C13_HeaderSequence ==
    pc = "iter" =>
        /\ \A i \in 1..Len(emitted) :
              /\ emitted[i].header.frag_id = i - 1
              /\ emitted[i].header.frag_id < emitted[i].header.frag_total
              /\ emitted[i].header.assoc_id = args.assoc_id
              /\ emitted[i].header.pkt_id = args.pkt_id
              /\ emitted[i].header.frag_total = frag.frag_total
        /\ frag.frag_total = FragTotal(FirstFragSize(args.max_pkt_size, args.addr),
                                       FragSizeAddrNone(args.max_pkt_size),
                                       Len(payload))
        /\ Len(emitted) = frag.next_frag_id
        /\ Done => Len(emitted) = frag.frag_total

\* A whole iteration of three fragments, the packet ids at the top of u16.
C13_Witness ==
    /\ Done
    /\ Len(emitted) = 3
    /\ args.assoc_id = 65535
    /\ emitted[3].header.frag_id = 2
    /\ emitted[3].header.pkt_id = 65535

(***************************************************************************)
(* C14. Exhaustion is permanent: once frag_total fragments have been       *)
(* yielded (next_frag_id = frag_total), a call to next() returns None and  *)
(* changes none of next_frag_id, next_frag_start, addr, frag_total, and    *)
(* nothing more is ever emitted; None is only ever returned in that state. *)
(***************************************************************************)
C14_ExhaustionPermanent ==
    [][ /\ (pc = "iter" /\ frag.next_frag_id = frag.frag_total)
            => /\ exhausted'
               /\ frag' = frag
               /\ emitted' = emitted
        /\ exhausted
            => /\ frag.next_frag_id = frag.frag_total
               /\ Len(emitted) = frag.frag_total
               /\ exhausted' ]_vars

\* next() has returned None more than once after a two-fragment iteration.
C14_Witness ==
    /\ exhausted
    /\ nones = MaxNones
    /\ frag.frag_total = 2
    /\ frag.next_frag_id = 2
    /\ Len(emitted) = 2

(***************************************************************************)
(* C15. ExactSizeIterator contract during iteration: after k calls to      *)
(* next(), Fragment::len() is the number of fragments the remaining calls  *)
(* still yield, frag_total - k.                                            *)
(***************************************************************************)
\* The fragments still to come: next() yields while next_frag_id < frag_total.
Remaining(self) ==
    IF HasNext(self) THEN self.frag_total - self.next_frag_id ELSE 0

C15_LenIsRemaining ==
    pc = "iter" => FragmentLen(frag) = Remaining(frag)

(***************************************************************************)
(* C16. Size field fidelity: in every emitted fragment the header's u16    *)
(* size field equals the length of the payload slice emitted with it, also *)
(* under a budget that allows a slice longer than 65535 bytes; over a      *)
(* whole packet the size fields add up to the payload length.              *)
(***************************************************************************)
RECURSIVE SumSizes(_)
SumSizes(frags) ==
    IF frags = <<>> THEN 0
    ELSE Head(frags).header.size + SumSizes(Tail(frags))

C16_SizeFidelity ==
    pc = "iter" =>
        /\ \A i \in 1..Len(emitted) :
              emitted[i].header.size = Len(emitted[i].payload)
        /\ Done => SumSizes(emitted) = Len(payload)

(***************************************************************************)
(* C17. Stream is a transparent pairing of its two halves: a write,        *)
(* vectored write, flush or shutdown on a Stream acts on the send half     *)
(* only, a read on the receive half only, and the caller gets exactly the  *)
(* outcome the transport half produced (ok, pending or error).             *)
(***************************************************************************)
SendCalls == {"poll_write", "poll_write_vectored", "poll_flush", "poll_shutdown"}

C17_TransparentPairing ==
    [][\A id \in DOMAIN streams :
          /\ (op'[1] \in SendCalls /\ op'[2] = id)
                => /\ id \in DOMAIN streams'
                   /\ io'.call = op'[1]
                   /\ io'.returned = io'.transport
                   /\ streams'[id].recv = streams[id].recv
                   /\ streams'[id].finish = streams[id].finish
                   /\ streams'[id].send.reg = streams[id].send.reg
          /\ (op'[1] = "poll_read" /\ op'[2] = id)
                => /\ id \in DOMAIN streams'
                   /\ io'.call = "poll_read"
                   /\ io'.returned = io'.transport
                   /\ streams'[id].send = streams[id].send
                   /\ streams'[id].finish = streams[id].finish
                   /\ streams'[id].recv.reg = streams[id].recv.reg]_vars

\* The transport failed a write on a stream whose receive half is open, and
\* the caller got the error.
C17_Witness ==
    \E id \in DOMAIN streams :
        /\ op = <<"poll_write", id>>
        /\ io.transport = "err"
        /\ io.returned = "err"
        /\ streams[id].finish = "never"
        /\ streams[id].send.quinn = "failed"
        /\ streams[id].recv.quinn = "open"

(***************************************************************************)
(* C18. Type-state soundness at run time: every Connect<Tx> and every      *)
(* Packet<Tx> that exists holds Side::Tx contents under its Tx marker, so  *)
(* Connect::header and Packet::into_fragments never reach unreachable!().  *)
(***************************************************************************)
C18_TypeState ==
    /\ pc # "unreachable"
    /\ pc = "packet" => (packet.marker = "Tx" /\ packet.inner.side = "Tx")
    /\ \A id \in DOMAIN connects :
          connects[id].marker = "Tx" /\ connects[id].inner.side = "Tx"

\* into_fragments has run on a Packet<Tx> and header() on a Connect<Tx>.
C18_Witness ==
    /\ pc = "iter"
    /\ frag.frag_total = 1
    /\ \E id \in DOMAIN connects :
          /\ op = <<"connect_header", id>>
          /\ ConnectHeader(connects[id]) = ConnectHeaderNew(AddrDomain)

(***************************************************************************)
(* C19. Iterator state stays in bounds: for a Fragment built with          *)
(* max_pkt_size >= len_without_addr() + len(addr), in every state          *)
(* next_frag_id <= frag_total (so the u8 increment cannot overflow) and    *)
(* next_frag_start <= payload.len(); next_frag_start never decreases, and  *)
(* every slice taken lies inside the payload with a length of zero or      *)
(* more.                                                                   *)
(***************************************************************************)
FitsHeader == args.max_pkt_size >= LenWithoutAddr + AddrLen(args.addr)

C19_InBounds ==
    [][(pc = "iter" /\ FitsHeader)
          => /\ pc' = "iter"
             /\ frag.next_frag_id <= frag.frag_total
             /\ frag.frag_total <= 255
             /\ frag.next_frag_start <= Len(payload)
             /\ frag'.next_frag_id <= frag'.frag_total
             /\ frag'.next_frag_id <= 255
             /\ frag'.next_frag_start <= Len(payload)
             /\ frag'.next_frag_start >= frag.next_frag_start
             /\ HasNext(frag)
                   => /\ frag.next_frag_start <= NextFragEnd(frag, Len(payload))
                      /\ NextFragEnd(frag, Len(payload)) <= Len(payload)]_vars

\* The last of 255 fragments has been yielded: next_frag_id is at u8::MAX.
C19_Witness ==
    /\ pc = "iter"
    /\ FitsHeader
    /\ frag.frag_total = 255
    /\ frag.next_frag_id = 255
    /\ frag.next_frag_start = Len(payload)
    /\ exhausted

(***************************************************************************)
(* C20. SOCKS5 credentials are all-or-nothing: when every earlier check    *)
(* of parse passes, the result is a Config with authentication None if     *)
(* neither socks5-username nor socks5-password is given, Password with     *)
(* both values if both are given, and the error Socks5UsernameAndPassword  *)
(* (no Config) if exactly one is given.                                    *)
(***************************************************************************)
\* Every check before the socks5 match passes on the command line m.
EarlierChecksPass(m) ==
    /\ ~m.fail /\ ~m.free /\ ~m.v /\ ~m.h
    /\ ParseUnsigned(m.p, U16Max).ok
    /\ m.server_ip.some => ParseIpAddr(m.server_ip.val).ok
    /\ m.number_of_retries.some
          => ParseUnsigned(m.number_of_retries.val, UsizeModulus - 1).ok
    /\ ParseUnsigned(m.l, U16Max).ok

C20_Socks5AllOrNothing ==
    (cfg_args.given /\ EarlierChecksPass(cfg_args)) =>
        LET u == cfg_args.socks5_username
            p == cfg_args.socks5_password
        IN  /\ (~u.some /\ ~p.some)
                  => /\ cfg_result.tag = "Ok"
                     /\ cfg_result.config.socks5_authentication = Socks5None
            /\ (u.some /\ p.some)
                  => /\ cfg_result.tag = "Ok"
                     /\ cfg_result.config.socks5_authentication =
                            Socks5Password(u.val, p.val)
            /\ (u.some # p.some)
                  => cfg_result = Err("Socks5UsernameAndPassword")

\* A lone password after every earlier check passed, refused.
C20_Witness ==
    /\ cfg_args.given
    /\ EarlierChecksPass(cfg_args)
    /\ cfg_args.server_ip = Some(StrIp)
    /\ ~cfg_args.socks5_username.some
    /\ cfg_args.socks5_password = Some(StrPw)
    /\ cfg_result = Err("Socks5UsernameAndPassword")

=============================================================================
